---- MODULE Spec2Model ----
(***************************************************************************)
(* LatencyProfileController of cluster-kube-controller-manager-operator.   *)
(*                                                                         *)
(* The controller reads the config/v1 Node object "cluster" through an     *)
(* informer-backed lister, derives three conditions from the worker        *)
(* latency profile and the per-revision config maps of the static pods,    *)
(* and writes them to the status of the Node object with                   *)
(* retry.RetryOnConflict.  After every cycle it reports the operator       *)
(* condition LatencyProfileControllerDegraded.                             *)
(*                                                                         *)
(* Modelled state: the Node object in the API server (store), the object   *)
(* the lister returns (cache, a pointer shared by all readers in the       *)
(* process), the operator condition, a logical wall clock, and the         *)
(* position and locals of the one sync that runs at a time.                *)
(***************************************************************************)
EXTENDS Integers, Sequences, FiniteSets, TLC

VARIABLES
    store,      \* the Node object "cluster" in the API server
    cache,      \* the object nodeLister.Get("cluster") returns, or NoObj
    opCond,     \* Status of LatencyProfileControllerDegraded in the operator status
    now,        \* logical clock: number of timestamps handed out so far
    pc,         \* position of the running sync: idle, commit, report, done
    cyc,        \* locals of the running (or last) sync
    att,        \* record of the last attempt of updateConfigNodeStatus
    rep,        \* outcome of the last completed sync
    fnIn,       \* input of the function a function specification applies
    fnOut       \* its result

vars == <<store, cache, opCond, now, pc, cyc, att, rep, fnIn, fnOut>>

-----------------------------------------------------------------------------
(* Bounds *)

MaxTime == 3        \* timestamps handed out in one behaviour
MaxRV == 3          \* resource versions external writers may produce
MaxNodes == 2       \* replicas listed in the static pod operator status

-----------------------------------------------------------------------------
(* Program constants *)

BackoffSteps == 5

nodeMonitorGracePeriodArgument == "node-monitor-grace-period"

reasonLatencyProfileUpdateTriggered == "ProfileUpdateTriggered"
reasonLatencyProfileUpdated == "ProfileUpdated"
reasonLatencyProfileEmpty == "ProfileEmpty"

KubeControllerManagerDegraded == "KubeControllerManagerDegraded"
KubeControllerManagerProgressing == "KubeControllerManagerProgressing"
KubeControllerManagerComplete == "KubeControllerManagerComplete"

DefaultUpdateDefaultReaction == "Default"
MediumUpdateAverageReaction == "MediumUpdateAverageReaction"
LowUpdateSlowReaction == "LowUpdateSlowReaction"

\* time.Duration.String() of the three grace periods
DefaultNodeMonitorGracePeriod == "40s"
MediumNodeMonitorGracePeriod == "2m0s"
LowNodeMonitorGracePeriod == "5m0s"

ConditionTrue == "True"
ConditionFalse == "False"
ConditionUnknown == "Unknown"

NoObj == [absent |-> TRUE]
Nil == "nil"

\* values of Spec.WorkerLatencyProfile the model draws from
Profiles == {"", DefaultUpdateDefaultReaction, MediumUpdateAverageReaction,
             LowUpdateSlowReaction, "BogusValue"}

\* the values the Node object takes in the controller specification; the
\* function specifications draw from all of Profiles
ClusterProfiles == {"", DefaultUpdateDefaultReaction,
                    MediumUpdateAverageReaction, "BogusValue"}

KnownProfiles == {"", DefaultUpdateDefaultReaction, MediumUpdateAverageReaction,
                  LowUpdateSlowReaction}

Revisions == {1, 2}

-----------------------------------------------------------------------------
(* Conditions and the merge *)

Condition(type, status, reason, message, ltt) ==
    [type |-> type, status |-> status, reason |-> reason,
     message |-> message, ltt |-> ltt]

\* a variant that compares the reason with the type looked for
findWLPStatusConditionByReason(conditions, conditionType) ==
    IF \E i \in 1..Len(conditions) : conditions[i].reason = conditionType
    THEN CHOOSE i \in 1..Len(conditions) :
            /\ conditions[i].reason = conditionType
            /\ \A j \in 1..(i-1) : conditions[j].reason # conditionType
    ELSE 0

\* index of the first condition of the type, 0 for nil
findWLPStatusCondition(conditions, conditionType) ==
    IF \E i \in 1..Len(conditions) : conditions[i].type = conditionType
    THEN CHOOSE i \in 1..Len(conditions) :
            /\ conditions[i].type = conditionType
            /\ \A j \in 1..(i-1) : conditions[j].type # conditionType
    ELSE 0

\* a variant that assigns the one-element list where it should append
setWLPStatusConditionAssigns(conditions, newCondition, t) ==
    LET i == findWLPStatusCondition(conditions, newCondition.type) IN
    IF i = 0
    THEN <<[newCondition EXCEPT !.ltt = t]>>
    ELSE [conditions EXCEPT ![i] =
            [@ EXCEPT !.status = newCondition.status,
                      !.ltt = IF conditions[i].status # newCondition.status
                              THEN t ELSE @,
                      !.reason = newCondition.reason,
                      !.message = newCondition.message]]

\* a variant that stamps the time on every call
setWLPStatusConditionAlwaysStamp(conditions, newCondition, t) ==
    LET i == findWLPStatusCondition(conditions, newCondition.type) IN
    IF i = 0
    THEN Append(conditions, [newCondition EXCEPT !.ltt = t])
    ELSE [conditions EXCEPT ![i] =
            [@ EXCEPT !.status = newCondition.status,
                      !.ltt = t,
                      !.reason = newCondition.reason,
                      !.message = newCondition.message]]

\* t is the value time.Now() returns in this call
setWLPStatusCondition(conditions, newCondition, t) ==
    LET i == findWLPStatusCondition(conditions, newCondition.type) IN
    IF i = 0
    THEN Append(conditions, [newCondition EXCEPT !.ltt = t])
    ELSE [conditions EXCEPT ![i] =
            [@ EXCEPT !.status = newCondition.status,
                      !.ltt = IF conditions[i].status # newCondition.status
                              THEN t ELSE @,
                      !.reason = newCondition.reason,
                      !.message = newCondition.message]]

\* the loop of updateConfigNodeStatus over newConditions, on the deep copy
RECURSIVE MergeConditions(_, _, _)
MergeConditions(status, newConditions, t) ==
    IF newConditions = <<>> THEN status
    ELSE MergeConditions(
            [status EXCEPT !.conds =
                setWLPStatusCondition(status.conds, Head(newConditions), t)],
            Tail(newConditions), t)

\* oldStatus is a configv1.NodeStatus value, oldStatus.DeepCopy() a
\* *configv1.NodeStatus: the two operands carry their dynamic types
NodeStatusValue(status) == [gotype |-> "NodeStatus", v |-> status]
NodeStatusPointer(status) == [gotype |-> "*NodeStatus", v |-> status]

\* a variant that dereferences before comparing
SemanticDeepEqualDeref(a1, a2) == a1.v = a2.v

\* equality.Semantic.DeepEqual: operands of different types are never equal
SemanticDeepEqual(a1, a2) ==
    /\ a1.gotype = a2.gotype
    /\ a1.v = a2.v

-----------------------------------------------------------------------------
(* Config maps and the evaluator *)

ArgNames == {nodeMonitorGracePeriodArgument, "bind-address"}
ArgValues == {DefaultNodeMonitorGracePeriod, MediumNodeMonitorGracePeriod,
              LowNodeMonitorGracePeriod}

\* an entry of ExtendedArguments: whether the key is there, and its values
ArgAbsent == [present |-> FALSE, vals |-> <<>>]
ArgPresent(vals) == [present |-> TRUE, vals |-> vals]

\* the outcome of ConfigMaps(ns).Get, and the decodable content of the map:
\* hasKey says Data holds "config.yaml", decodes says json.Unmarshal succeeds,
\* ext is ExtendedArguments of the decoded KubeControllerManagerConfig
LookupError == [get |-> "error", hasKey |-> FALSE, decodes |-> FALSE,
                ext |-> [n \in ArgNames |-> ArgAbsent]]
ConfigMap(hasKey, decodes, ext) ==
    [get |-> "ok", hasKey |-> hasKey, decodes |-> decodes, ext |-> ext]

\* a variant that fails on a present key with no value
MatchLoopStrictEmpty(ext, argVals) ==
    \A i \in 1..Len(argVals) :
        /\ ext[argVals[i][1]].present
        /\ Len(ext[argVals[i][1]].vals) > 0
        /\ ext[argVals[i][1]].vals[1] = argVals[i][2]

\* the loop `for arg := range argValMap`: argVals lists the entries of the
\* map in the order this run of the loop visits them
RECURSIVE MatchLoop(_, _)
MatchLoop(ext, argVals) ==
    IF argVals = <<>> THEN TRUE
    ELSE LET arg == Head(argVals)[1]
             expectedValue == Head(argVals)[2]
             fetched == ext[arg]
         IN  IF ~fetched.present THEN FALSE
             ELSE IF Len(fetched.vals) > 0 /\ fetched.vals[1] # expectedValue
                  THEN FALSE
                  ELSE MatchLoop(ext, Tail(argVals))

configMatchesControllerManagerArguments(configMap, argVals) ==
    IF ~configMap.hasKey
    THEN [match |-> FALSE, err |-> "could not find config.yaml"]
    ELSE IF ~configMap.decodes
    THEN [match |-> FALSE, err |-> "json unmarshal error"]
    ELSE [match |-> MatchLoop(configMap.ext, argVals), err |-> Nil]

-----------------------------------------------------------------------------
(* updateLatencyProfileSyncedStatus up to its call of updateConfigNodeStatus *)

\* a variant that expects the duration of Low for Medium
DesiredArgumentValsMediumAsLow(profile) ==
    IF profile = DefaultUpdateDefaultReaction
    THEN << <<nodeMonitorGracePeriodArgument, DefaultNodeMonitorGracePeriod>> >>
    ELSE IF profile = MediumUpdateAverageReaction
    THEN << <<nodeMonitorGracePeriodArgument, LowNodeMonitorGracePeriod>> >>
    ELSE IF profile = LowUpdateSlowReaction
    THEN << <<nodeMonitorGracePeriodArgument, LowNodeMonitorGracePeriod>> >>
    ELSE <<>>

\* the switch on Spec.WorkerLatencyProfile; it has no default case
DesiredArgumentVals(profile) ==
    IF profile = DefaultUpdateDefaultReaction
    THEN << <<nodeMonitorGracePeriodArgument, DefaultNodeMonitorGracePeriod>> >>
    ELSE IF profile = MediumUpdateAverageReaction
    THEN << <<nodeMonitorGracePeriodArgument, MediumNodeMonitorGracePeriod>> >>
    ELSE IF profile = LowUpdateSlowReaction
    THEN << <<nodeMonitorGracePeriodArgument, LowNodeMonitorGracePeriod>> >>
    ELSE <<>>

\* a variant that keeps every node status's revision
UniqueRevisionsNoDedupe(nodeStatuses) == nodeStatuses

\* the unique set of revisions of the node statuses, in order of appearance
RECURSIVE UniqueRevisions(_)
UniqueRevisions(nodeStatuses) ==
    IF nodeStatuses = <<>> THEN <<>>
    ELSE LET front == SubSeq(nodeStatuses, 1, Len(nodeStatuses) - 1)
             revision == nodeStatuses[Len(nodeStatuses)]
             u == UniqueRevisions(front)
         IN  IF \E i \in 1..Len(u) : u[i] = revision
             THEN u ELSE Append(u, revision)

\* a variant of the loop that goes on to the next revision after a mismatch
RECURSIVE CheckRevisionsNoBreak(_, _, _, _)
CheckRevisionsNoBreak(revisions, snaps, desired, looked) ==
    IF revisions = <<>>
    THEN [err |-> Nil, synced |-> TRUE, lookups |-> looked]
    ELSE LET revision == Head(revisions)
             configMap == snaps[revision]
             seen == Append(looked, revision)
         IN  IF configMap.get # "ok"
             THEN [err |-> "configmap get error", synced |-> FALSE,
                   lookups |-> seen]
             ELSE LET m == configMatchesControllerManagerArguments(configMap, desired)
                      rest == CheckRevisionsNoBreak(Tail(revisions), snaps,
                                                    desired, seen)
                  IN  IF m.err # Nil
                      THEN [err |-> m.err, synced |-> FALSE, lookups |-> seen]
                      ELSE IF ~m.match
                      THEN [rest EXCEPT !.synced = FALSE]
                      ELSE rest

\* the loop over uniqueRevisions: looked is the list of revisions whose
\* config map has been requested so far
RECURSIVE CheckRevisions(_, _, _, _)
CheckRevisions(revisions, snaps, desired, looked) ==
    IF revisions = <<>>
    THEN [err |-> Nil, synced |-> TRUE, lookups |-> looked]
    ELSE LET revision == Head(revisions)
             configMap == snaps[revision]
             seen == Append(looked, revision)
         IN  IF configMap.get # "ok"
             THEN [err |-> "configmap get error", synced |-> FALSE,
                   lookups |-> seen]
             ELSE LET m == configMatchesControllerManagerArguments(configMap, desired)
                  IN  IF m.err # Nil
                      THEN [err |-> m.err, synced |-> FALSE, lookups |-> seen]
                      ELSE IF ~m.match
                      THEN [err |-> Nil, synced |-> FALSE, lookups |-> seen]
                      ELSE CheckRevisions(Tail(revisions), snaps, desired, seen)

ProfileEmptyConditions ==
    << Condition(KubeControllerManagerDegraded, ConditionFalse,
                 reasonLatencyProfileEmpty,
                 "worker latency profile not set on cluster", 0),
       Condition(KubeControllerManagerProgressing, ConditionFalse,
                 reasonLatencyProfileEmpty, "", 0),
       Condition(KubeControllerManagerComplete, ConditionFalse,
                 reasonLatencyProfileEmpty, "", 0) >>

\* a variant that leaves Progressing at its initial Unknown
ProfileUpdatedConditionsProgressingUnset ==
    << Condition(KubeControllerManagerDegraded, ConditionFalse,
                 reasonLatencyProfileUpdated, "", 0),
       Condition(KubeControllerManagerProgressing, ConditionUnknown,
                 "", "", 0),
       Condition(KubeControllerManagerComplete, ConditionTrue,
                 reasonLatencyProfileUpdated,
                 "all kube-controller-manager(s) have updated latency profile", 0) >>

ProfileUpdatedConditions ==
    << Condition(KubeControllerManagerDegraded, ConditionFalse,
                 reasonLatencyProfileUpdated, "", 0),
       Condition(KubeControllerManagerProgressing, ConditionFalse,
                 reasonLatencyProfileUpdated, "", 0),
       Condition(KubeControllerManagerComplete, ConditionTrue,
                 reasonLatencyProfileUpdated,
                 "all kube-controller-manager(s) have updated latency profile", 0) >>

\* a variant with the statuses of Progressing and Complete exchanged
ProfileUpdateTriggeredConditionsSwapped ==
    << Condition(KubeControllerManagerDegraded, ConditionFalse,
                 reasonLatencyProfileUpdateTriggered, "", 0),
       Condition(KubeControllerManagerProgressing, ConditionFalse,
                 reasonLatencyProfileUpdateTriggered,
                 "kube-controller-manager(s) are updating latency profile", 0),
       Condition(KubeControllerManagerComplete, ConditionTrue,
                 reasonLatencyProfileUpdateTriggered, "", 0) >>

ProfileUpdateTriggeredConditions ==
    << Condition(KubeControllerManagerDegraded, ConditionFalse,
                 reasonLatencyProfileUpdateTriggered, "", 0),
       Condition(KubeControllerManagerProgressing, ConditionTrue,
                 reasonLatencyProfileUpdateTriggered,
                 "kube-controller-manager(s) are updating latency profile", 0),
       Condition(KubeControllerManagerComplete, ConditionFalse,
                 reasonLatencyProfileUpdateTriggered, "", 0) >>

\* the result of the part of updateLatencyProfileSyncedStatus that precedes
\* the commit: err is the error returned (Nil for none), commit says
\* updateConfigNodeStatus is called, with conds as its newConditions
EvalResult(err, commit, conds, lookups, readFleet) ==
    [err |-> err, commit |-> commit, conds |-> conds, lookups |-> lookups,
     readFleet |-> readFleet]

\* a variant that commits the in-progress conditions when a lookup fails
EvaluateCommitOnError(listed, opState, snaps) ==
    LET r == CheckRevisions(UniqueRevisions(opState.nodeStatuses), snaps,
                            DesiredArgumentVals(listed.profile), <<>>)
    IN  IF listed.err = "not found"
        THEN EvalResult(Nil, FALSE, <<>>, <<>>, FALSE)
        ELSE IF listed.err # Nil
        THEN EvalResult(listed.err, FALSE, <<>>, <<>>, FALSE)
        ELSE IF listed.profile = ""
        THEN EvalResult(Nil, TRUE, ProfileEmptyConditions, <<>>, FALSE)
        ELSE IF opState.err # Nil
        THEN EvalResult(opState.err, FALSE, <<>>, <<>>, TRUE)
        ELSE IF r.synced
        THEN EvalResult(r.err, TRUE, ProfileUpdatedConditions, r.lookups, TRUE)
        ELSE EvalResult(r.err, TRUE, ProfileUpdateTriggeredConditions,
                        r.lookups, TRUE)

\* a variant whose revisionsHaveSynced starts false and turns true with the
\* first matching revision
EvaluateSyncedNeedsRevision(listed, opState, snaps) ==
    LET r == CheckRevisions(UniqueRevisions(opState.nodeStatuses), snaps,
                            DesiredArgumentVals(listed.profile), <<>>)
    IN  IF listed.err = "not found"
        THEN EvalResult(Nil, FALSE, <<>>, <<>>, FALSE)
        ELSE IF listed.err # Nil
        THEN EvalResult(listed.err, FALSE, <<>>, <<>>, FALSE)
        ELSE IF listed.profile = ""
        THEN EvalResult(Nil, TRUE, ProfileEmptyConditions, <<>>, FALSE)
        ELSE IF opState.err # Nil
        THEN EvalResult(opState.err, FALSE, <<>>, <<>>, TRUE)
        ELSE IF r.err # Nil
        THEN EvalResult(r.err, FALSE, <<>>, r.lookups, TRUE)
        ELSE IF r.synced /\ r.lookups # <<>>
        THEN EvalResult(Nil, TRUE, ProfileUpdatedConditions, r.lookups, TRUE)
        ELSE EvalResult(Nil, TRUE, ProfileUpdateTriggeredConditions,
                        r.lookups, TRUE)

\* a variant without the test for not-found
EvaluateNotFoundIsError(listed, opState, snaps) ==
    LET r == CheckRevisions(UniqueRevisions(opState.nodeStatuses), snaps,
                            DesiredArgumentVals(listed.profile), <<>>)
    IN  IF listed.err # Nil
        THEN EvalResult(listed.err, FALSE, <<>>, <<>>, FALSE)
        ELSE IF listed.profile = ""
        THEN EvalResult(Nil, TRUE, ProfileEmptyConditions, <<>>, FALSE)
        ELSE IF opState.err # Nil
        THEN EvalResult(opState.err, FALSE, <<>>, <<>>, TRUE)
        ELSE IF r.err # Nil
        THEN EvalResult(r.err, FALSE, <<>>, r.lookups, TRUE)
        ELSE IF r.synced
        THEN EvalResult(Nil, TRUE, ProfileUpdatedConditions, r.lookups, TRUE)
        ELSE EvalResult(Nil, TRUE, ProfileUpdateTriggeredConditions,
                        r.lookups, TRUE)

\* a variant that reads the fleet status before it looks at the profile
EvaluateFleetFirst(listed, opState, snaps) ==
    LET r == CheckRevisions(UniqueRevisions(opState.nodeStatuses), snaps,
                            DesiredArgumentVals(listed.profile), <<>>)
    IN  IF listed.err = "not found"
        THEN EvalResult(Nil, FALSE, <<>>, <<>>, FALSE)
        ELSE IF listed.err # Nil
        THEN EvalResult(listed.err, FALSE, <<>>, <<>>, FALSE)
        ELSE IF opState.err # Nil
        THEN EvalResult(opState.err, FALSE, <<>>, <<>>, TRUE)
        ELSE IF listed.profile = ""
        THEN EvalResult(Nil, TRUE, ProfileEmptyConditions, <<>>, TRUE)
        ELSE IF r.err # Nil
        THEN EvalResult(r.err, FALSE, <<>>, r.lookups, TRUE)
        ELSE IF r.synced
        THEN EvalResult(Nil, TRUE, ProfileUpdatedConditions, r.lookups, TRUE)
        ELSE EvalResult(Nil, TRUE, ProfileUpdateTriggeredConditions,
                        r.lookups, TRUE)

\* listed is the outcome of nodeLister.Get("cluster"): its error and the
\* Spec.WorkerLatencyProfile of the object; opState is the outcome of
\* GetStaticPodOperatorState, snaps the config map each revision's Get returns
Evaluate(listed, opState, snaps) ==
    IF listed.err = "not found"
    THEN EvalResult(Nil, FALSE, <<>>, <<>>, FALSE)
    ELSE IF listed.err # Nil
    THEN EvalResult(listed.err, FALSE, <<>>, <<>>, FALSE)
    ELSE IF listed.profile = ""
    THEN EvalResult(Nil, TRUE, ProfileEmptyConditions, <<>>, FALSE)
    ELSE IF opState.err # Nil
    THEN EvalResult(opState.err, FALSE, <<>>, <<>>, TRUE)
    ELSE LET r == CheckRevisions(UniqueRevisions(opState.nodeStatuses), snaps,
                                 DesiredArgumentVals(listed.profile), <<>>)
         IN  IF r.err # Nil
             THEN EvalResult(r.err, FALSE, <<>>, r.lookups, TRUE)
             ELSE IF r.synced
             THEN EvalResult(Nil, TRUE, ProfileUpdatedConditions, r.lookups, TRUE)
             ELSE EvalResult(Nil, TRUE, ProfileUpdateTriggeredConditions,
                             r.lookups, TRUE)

-----------------------------------------------------------------------------
(* The environment a sync reads *)

NoExt == [n \in ArgNames |-> ArgAbsent]

\* ExtendedArguments of the config maps the revisions carry
SnapshotExts ==
    {[NoExt EXCEPT ![nodeMonitorGracePeriodArgument] = e] :
        e \in {ArgAbsent, ArgPresent(<<>>)} \cup
              {ArgPresent(<<v>>) : v \in ArgValues}}

SnapshotValues ==
    {LookupError, ConfigMap(FALSE, FALSE, NoExt), ConfigMap(TRUE, FALSE, NoExt)}
    \cup {ConfigMap(TRUE, TRUE, e) : e \in SnapshotExts}

SeqsUpTo(S, n) == UNION {[1..k -> S] : k \in 0..n}

\* outcomes of GetStaticPodOperatorState: nodeStatuses holds the
\* CurrentRevision of each node status
OperatorStates ==
    {[err |-> "operator state error", nodeStatuses |-> <<>>]} \cup
    {[err |-> Nil, nodeStatuses |-> ns] : ns \in SeqsUpTo(Revisions, MaxNodes)}

RevisionSet(nodeStatuses) == {nodeStatuses[i] : i \in 1..Len(nodeStatuses)}

\* the config maps a sync can get: one per revision of the node statuses;
\* no config map is there for a revision no node runs
SnapshotsOf(revs) ==
    {snaps \in [Revisions -> SnapshotValues] :
        \A r \in Revisions \ revs : snaps[r] = LookupError}

\* what GetStaticPodOperatorState and the config map client can answer
\* in one sync
Environments ==
    UNION {[opState : {o}, snaps : SnapshotsOf(RevisionSet(o.nodeStatuses))] :
            o \in OperatorStates}

\* the outcome of nodeLister.Get("cluster"); fails says the lister itself
\* reports an error
ListerGet(fails) ==
    IF fails THEN [err |-> "lister error", obj |-> NoObj]
    ELSE IF cache = NoObj THEN [err |-> "not found", obj |-> NoObj]
    ELSE [err |-> Nil, obj |-> cache]

Decodable(configMap) ==
    configMap.get = "ok" /\ configMap.hasKey /\ configMap.decodes

\* what the evaluator is documented to decide for one decoded snapshot
SnapshotSatisfies(ext, argVals) ==
    \A i \in 1..Len(argVals) :
        /\ ext[argVals[i][1]].present
        /\ \/ ext[argVals[i][1]].vals = <<>>
           \/ ext[argVals[i][1]].vals[1] = argVals[i][2]

EmptyStatus == [conds |-> <<>>, other |-> 0]

NoAttempt ==
    [n |-> 0, old |-> EmptyStatus, new |-> EmptyStatus, issued |-> FALSE,
     reqRv |-> 0, outcome |-> "none"]

NoReport == [done |-> FALSE, status |-> ConditionUnknown, message |-> "",
             stored |-> FALSE, ret |-> Nil]

NoCycle ==
    [listed |-> "none", profile |-> "", evalErr |-> Nil,
     commit |-> FALSE, conds |-> <<>>,
     attempts |-> 0, writes |-> 0, accepted |-> 0, updated |-> FALSE,
     finished |-> FALSE, err |-> Nil]

\* what line 102 of updateLatencyProfileSyncedStatus gets: the error of the
\* lister and the profile of the object
ReadProfile(fails) ==
    LET l == ListerGet(fails)
    IN  [err |-> l.err, profile |-> IF l.err = Nil THEN l.obj.profile ELSE ""]

ListedOutcomes ==
    {[err |-> "lister error", profile |-> ""],
     [err |-> "not found", profile |-> ""]}
    \cup {[err |-> Nil, profile |-> p] : p \in Profiles}

\* the results updateLatencyProfileSyncedStatus can come to before the
\* commit, over all the environments, for each outcome of the lister
Evaluations ==
    [listed \in ListedOutcomes |->
        {Evaluate(listed, env.opState, env.snaps) : env \in Environments}]

-----------------------------------------------------------------------------
(* The API server *)

\* the object handed to Nodes().UpdateStatus: the object the lister
\* returned, resourceVersion included, with the new status
UpdateRequestUnversioned(configNodeObj, newStatus) ==
    [rv |-> 0, status |-> newStatus]

UpdateRequest(configNodeObj, newStatus) ==
    [rv |-> configNodeObj.rv, status |-> newStatus]

\* the answer of the API server to an update of the status subresource:
\* fails says the request fails for a reason other than a conflict; a
\* request without resourceVersion is unconditional
UpdateStatusOutcome(req, stored, fails) ==
    IF fails THEN "error"
    ELSE IF req.rv # 0 /\ req.rv # stored.rv THEN "conflict"
    ELSE "ok"

\* an update that changes nothing leaves the resourceVersion alone
UpdateStatusApply(req, stored) ==
    IF req.status = stored.status THEN stored
    ELSE [stored EXCEPT !.status = req.status, !.rv = @ + 1]

-----------------------------------------------------------------------------
(* Actions *)

Init ==
    /\ store \in [rv : {1}, profile : ClusterProfiles, status : {EmptyStatus}]
    /\ cache \in {NoObj, store}
    /\ opCond = ConditionUnknown
    /\ now = 0
    /\ pc = "idle"
    /\ cyc = NoCycle
    /\ att = NoAttempt
    /\ rep = NoReport
    /\ fnIn = <<>>
    /\ fnOut = <<>>

\* sync, lines 79-80: one trigger starts updateLatencyProfileSyncedStatus,
\* which runs up to the call of updateConfigNodeStatus
StartSync ==
    /\ pc = "idle"
    /\ \E fails \in BOOLEAN :
        LET listed == ReadProfile(fails)
        IN  \E e \in Evaluations[listed] :
                /\ cyc' = [NoCycle EXCEPT
                        !.listed = IF listed.err = Nil THEN "ok" ELSE listed.err,
                        !.profile = listed.profile,
                        !.evalErr = e.err,
                        !.commit = e.commit,
                        !.conds = e.conds,
                        !.err = e.err]
                /\ pc' = IF e.commit THEN "commit" ELSE "report"
    /\ UNCHANGED <<store, cache, opCond, now, att, rep, fnIn, fnOut>>

\* the end of updateConfigNodeStatus: its error becomes syncErr
CommitReturns(updated, err, a) ==
    /\ cyc' = [cyc EXCEPT !.attempts = a.n, !.updated = updated, !.err = err,
                          !.finished = TRUE,
                          !.writes = @ + (IF a.issued THEN 1 ELSE 0),
                          !.accepted = @ + (IF a.outcome = "ok" THEN 1 ELSE 0)]
    /\ att' = a
    /\ pc' = "report"

\* a variant that allows one attempt more
ShouldRetryOneMore(outcome, steps) ==
    outcome = "conflict" /\ steps <= BackoffSteps

\* a variant that retries after every failed write
ShouldRetryAnyError(outcome, steps) ==
    outcome # "ok" /\ steps < BackoffSteps

\* retry.RetryOnConflict(retry.DefaultBackoff, fn): fn runs again when it
\* returned a conflict and the backoff has steps left; steps is the number
\* of runs so far
ShouldRetry(outcome, steps) ==
    outcome = "conflict" /\ steps < BackoffSteps

\* one run of the function RetryOnConflict calls, lines 56-79
Attempt ==
    /\ pc = "commit"
    /\ \E readFails \in BOOLEAN, writeFails \in BOOLEAN :
        LET listed == ListerGet(readFails)
            a0 == [NoAttempt EXCEPT !.n = cyc.attempts + 1]
        IN  IF listed.err # Nil
            THEN /\ ~writeFails
                 /\ CommitReturns(FALSE, listed.err, a0)
                 /\ UNCHANGED <<store, cache, now>>
            ELSE
            LET configNodeObj == listed.obj
                oldStatus == configNodeObj.status
                t == now + 1
                newStatus == MergeConditions(oldStatus, cyc.conds, t)
                stamped == \E i \in 1..Len(newStatus.conds) :
                                newStatus.conds[i].ltt = t
                a1 == [a0 EXCEPT !.old = oldStatus, !.new = newStatus]
            IN  /\ stamped => now < MaxTime
                /\ now' = IF stamped THEN t ELSE now
                /\ IF SemanticDeepEqual(NodeStatusValue(oldStatus),
                                        NodeStatusPointer(newStatus))
                   THEN /\ ~writeFails
                        /\ CommitReturns(FALSE, Nil, a1)
                        /\ UNCHANGED <<store, cache>>
                   ELSE
                   LET req == UpdateRequest(configNodeObj, newStatus)
                       outcome == UpdateStatusOutcome(req, store, writeFails)
                       a2 == [a1 EXCEPT !.issued = TRUE, !.reqRv = req.rv,
                                        !.outcome = outcome]
                   IN  \* line 75 assigns to the object the lister returned
                       /\ cache' = [cache EXCEPT !.status = newStatus]
                       /\ store' = IF outcome = "ok"
                                   THEN UpdateStatusApply(req, store)
                                   ELSE store
                       /\ IF outcome = "ok"
                          THEN CommitReturns(TRUE, Nil, a2)
                          ELSE IF ShouldRetry(outcome, cyc.attempts + 1)
                          THEN /\ cyc' = [cyc EXCEPT !.attempts = @ + 1,
                                                     !.writes = @ + 1]
                               /\ att' = a2
                               /\ pc' = "commit"
                          ELSE CommitReturns(FALSE, outcome, a2)
    /\ UNCHANGED <<opCond, rep, fnIn, fnOut>>

\* a variant that reports False whatever the error
DegradedConditionAlwaysFalse(syncErr) ==
    [type |-> "LatencyProfileControllerDegraded", status |-> ConditionFalse,
     reason |-> "", message |-> ""]

\* the operator condition sync builds from syncErr
DegradedCondition(syncErr) ==
    IF syncErr # Nil
    THEN [type |-> "LatencyProfileControllerDegraded", status |-> ConditionTrue,
          reason |-> "Error", message |-> syncErr]
    ELSE [type |-> "LatencyProfileControllerDegraded", status |-> ConditionFalse,
          reason |-> "", message |-> ""]

\* what sync returns: the error of the status update, else syncErr
SyncReturn(updateErr, syncErr) ==
    IF updateErr # Nil THEN updateErr ELSE syncErr

\* sync, lines 82-94: the operator condition is built from syncErr and
\* handed to v1helpers.UpdateStatus; updateFails says that call fails
Report ==
    /\ pc = "report"
    /\ \E updateFails \in BOOLEAN :
        LET condition == DegradedCondition(cyc.err)
            updateErr == IF updateFails THEN "update status error" ELSE Nil
        IN  /\ opCond' = IF updateFails THEN opCond ELSE condition.status
            /\ rep' = [done |-> TRUE, status |-> condition.status,
                       message |-> condition.message,
                       stored |-> ~updateFails,
                       ret |-> SyncReturn(updateErr, cyc.err)]
    /\ pc' = "done"
    /\ att' = NoAttempt
    /\ UNCHANGED <<store, cache, now, cyc, fnIn, fnOut>>

\* sync has returned; the controller waits for the next trigger
Return ==
    /\ pc = "done"
    /\ pc' = "idle"
    /\ cyc' = NoCycle
    /\ rep' = NoReport
    /\ UNCHANGED <<store, cache, opCond, now, att, fnIn, fnOut>>

\* the informer replaces the cached object by the one in the API server
Feed ==
    /\ IF cache = NoObj THEN TRUE ELSE cache.rv # store.rv
    /\ cache' = store
    /\ UNCHANGED <<store, opCond, now, pc, cyc, att, rep, fnIn, fnOut>>

\* another actor updates a field of the status the controller does not set
OtherWrite ==
    /\ store.rv < MaxRV
    /\ store' = [store EXCEPT !.rv = @ + 1, !.status.other = 1 - @]
    /\ UNCHANGED <<cache, opCond, now, pc, cyc, att, rep, fnIn, fnOut>>

\* an administrator changes Spec.WorkerLatencyProfile
SetProfile ==
    /\ store.rv < MaxRV
    /\ \E p \in ClusterProfiles \ {store.profile} :
        store' = [store EXCEPT !.rv = @ + 1, !.profile = p]
    /\ UNCHANGED <<cache, opCond, now, pc, cyc, att, rep, fnIn, fnOut>>

Next == StartSync \/ Attempt \/ Report \/ Return \/ Feed \/ OtherWrite \/ SetProfile

Spec == Init /\ [][Next]_vars

TypeOK ==
    /\ now \in 0..MaxTime
    /\ pc \in {"idle", "commit", "report", "done"}
    /\ cyc.attempts \in 0..BackoffSteps

-----------------------------------------------------------------------------
(* The config observer ObserveNodeMonitorGracePeriod *)

\* the path of the observed value in the config
nodeMonitorGracePeriodPath == <<"extendedArguments", "node-monitor-grace-period">>

\* the value of a config at nodeMonitorGracePeriodPath: nothing, a list of
\* strings, or a value of another type
PathAbsent == [kind |-> "absent", vals |-> <<>>]
PathStrings(vals) == [kind |-> "strings", vals |-> vals]
PathMalformed == [kind |-> "malformed", vals |-> <<>>]

\* a config map[string]interface{}: nil, or a map with the value at the
\* path; rest says the map holds keys outside the path
NilConfig == [nil |-> TRUE, path |-> PathAbsent, rest |-> FALSE]
Config(path, rest) == [nil |-> FALSE, path |-> path, rest |-> rest]

\* a variant that returns the config as it is
PrunedKeepsAll(obj) == obj

\* configobserver.Pruned(ret, nodeMonitorGracePeriodPath): everything outside
\* the path is dropped, a nil map stays nil
Pruned(obj) ==
    IF obj.nil THEN obj ELSE Config(obj.path, FALSE)

\* unstructured.NestedStringSlice(existingConfig, nodeMonitorGracePeriodPath...)
NestedStringSlice(obj) ==
    IF obj.nil \/ obj.path.kind = "absent"
    THEN [vals |-> <<>>, found |-> FALSE, err |-> Nil]
    ELSE IF obj.path.kind = "strings"
    THEN [vals |-> obj.path.vals, found |-> TRUE, err |-> Nil]
    ELSE [vals |-> <<>>, found |-> FALSE, err |-> "not a string slice"]

ObserverError(msg, arg) == [msg |-> msg, arg |-> arg]

\* a variant with the durations of Medium and Low exchanged
ObservedNodeMonitorGracePeriodSwapped(profile) ==
    IF profile = DefaultUpdateDefaultReaction THEN DefaultNodeMonitorGracePeriod
    ELSE IF profile = MediumUpdateAverageReaction THEN LowNodeMonitorGracePeriod
    ELSE IF profile = LowUpdateSlowReaction THEN MediumNodeMonitorGracePeriod
    ELSE ""

\* the three cases of the switch that set observedNodeMonitorGracePeriod
ObservedNodeMonitorGracePeriod(profile) ==
    IF profile = DefaultUpdateDefaultReaction THEN DefaultNodeMonitorGracePeriod
    ELSE IF profile = MediumUpdateAverageReaction THEN MediumNodeMonitorGracePeriod
    ELSE IF profile = LowUpdateSlowReaction THEN LowNodeMonitorGracePeriod
    ELSE ""

\* listed is the outcome of nodeLister.Get("cluster"); the result is what the
\* function returns after the deferred Pruned has run.  SetNestedStringSlice
\* into the empty observedConfig cannot fail
ObserveNodeMonitorGracePeriod(listed, existingConfig) ==
    LET Ret(ret, errs) == [ret |-> Pruned(ret), errs |-> errs]
    IN  IF listed.err # Nil /\ listed.err # "not found"
        THEN Ret(existingConfig, <<ObserverError(listed.err, "")>>)
        ELSE IF listed.err = "not found"
        THEN Ret(existingConfig, <<>>)
        ELSE IF listed.profile = ""
        THEN Ret(existingConfig, <<>>)
        ELSE IF listed.profile \notin {DefaultUpdateDefaultReaction,
                                       MediumUpdateAverageReaction,
                                       LowUpdateSlowReaction}
        THEN Ret(existingConfig,
                 <<ObserverError("unknown worker latency profile found",
                                 listed.profile)>>)
        ELSE
        LET observedNodeMonitorGracePeriod ==
                ObservedNodeMonitorGracePeriod(listed.profile)
            current == NestedStringSlice(existingConfig)
            errs == IF current.err # Nil
                    THEN <<ObserverError("unable to extract node monitor grace period from the existing config",
                                         current.err)>>
                    ELSE <<>>
            currentNodeMonitorGracePeriod ==
                IF Len(current.vals) > 0 THEN current.vals[1] ELSE ""
        IN  IF currentNodeMonitorGracePeriod # observedNodeMonitorGracePeriod
            THEN Ret(Config(PathStrings(<<observedNodeMonitorGracePeriod>>),
                            FALSE), errs)
            ELSE Ret(existingConfig, errs)

-----------------------------------------------------------------------------
(* Function specifications: the inputs are drawn in the initial state and  *)
(* one action applies the function                                         *)

MaxVals == 2        \* values one extended argument lists

NotApplied == [applied |-> FALSE]

\* the controller's variables stand still under a function specification
ControllerAtRest ==
    /\ store = [rv |-> 1, profile |-> "", status |-> EmptyStatus]
    /\ cache = NoObj
    /\ opCond = ConditionUnknown
    /\ now = 0
    /\ pc = "idle"
    /\ cyc = NoCycle
    /\ att = NoAttempt
    /\ rep = NoReport

MatchValues == {DefaultNodeMonitorGracePeriod, MediumNodeMonitorGracePeriod}

\* the entries of an argValMap in one order of iteration
MatchArgVals ==
    {argVals \in SeqsUpTo(ArgNames \X MatchValues, Cardinality(ArgNames)) :
        \A i, j \in 1..Len(argVals) : i # j => argVals[i][1] # argVals[j][1]}

MatchExts ==
    [ArgNames -> {ArgAbsent} \cup
                 {ArgPresent(vals) : vals \in SeqsUpTo(MatchValues, MaxVals)}]

MatchConfigMaps ==
    {ConfigMap(FALSE, FALSE, NoExt), ConfigMap(TRUE, FALSE, NoExt)}
    \cup {ConfigMap(TRUE, TRUE, e) : e \in MatchExts}

InitMatch ==
    /\ ControllerAtRest
    /\ fnIn \in [configMap : MatchConfigMaps, argVals : MatchArgVals]
    /\ fnOut = NotApplied

ApplyMatch ==
    /\ ~fnOut.applied
    /\ fnOut' = [applied |-> TRUE,
                 r |-> configMatchesControllerManagerArguments(
                            fnIn.configMap, fnIn.argVals)]
    /\ UNCHANGED <<store, cache, opCond, now, pc, cyc, att, rep, fnIn>>

NextMatch == ApplyMatch

SpecMatch == InitMatch /\ [][NextMatch]_vars

InitEval ==
    /\ ControllerAtRest
    /\ fnIn \in {[listed |-> l, opState |-> env.opState, snaps |-> env.snaps] :
                    l \in ListedOutcomes, env \in Environments}
    /\ fnOut = NotApplied

ApplyEval ==
    /\ ~fnOut.applied
    /\ fnOut' = [applied |-> TRUE,
                 r |-> Evaluate(fnIn.listed, fnIn.opState, fnIn.snaps)]
    /\ UNCHANGED <<store, cache, opCond, now, pc, cyc, att, rep, fnIn>>

NextEval == ApplyEval

SpecEval == InitEval /\ [][NextEval]_vars

\* the existing configs an observer is handed
ExistingConfigs ==
    {NilConfig} \cup
    {Config(path, rest) :
        path \in {PathAbsent, PathMalformed} \cup
                 {PathStrings(vals) : vals \in SeqsUpTo(ArgValues, MaxVals)},
        rest \in BOOLEAN}

InitObserve ==
    /\ ControllerAtRest
    /\ fnIn \in [listed : ListedOutcomes, existingConfig : ExistingConfigs]
    /\ fnOut = NotApplied

ApplyObserve ==
    /\ ~fnOut.applied
    /\ fnOut' = [applied |-> TRUE,
                 r |-> ObserveNodeMonitorGracePeriod(fnIn.listed,
                                                     fnIn.existingConfig)]
    /\ UNCHANGED <<store, cache, opCond, now, pc, cyc, att, rep, fnIn>>

NextObserve == ApplyObserve

SpecObserve == InitObserve /\ [][NextObserve]_vars

MaxNew == 3         \* new conditions handed to one merge

MergeKinds == {KubeControllerManagerDegraded, KubeControllerManagerProgressing,
               KubeControllerManagerComplete}

\* conditions a status holds before a merge, stamped at time 1
StoredConditions ==
    {Condition(type, status, "Stored", "", 1) :
        type \in MergeKinds, status \in {ConditionTrue, ConditionFalse}}

\* the condition lists with at most one condition of a kind, in any order
UniqueKindLists ==
    {conds \in SeqsUpTo(StoredConditions, Cardinality(MergeKinds)) :
        \A i, j \in 1..Len(conds) : conds[i].type = conds[j].type => i = j}

\* the newConditions of a call, of any kinds, repeated kinds included
NewConditionLists ==
    SeqsUpTo({Condition(type, status, "New", "new", 0) :
                type \in MergeKinds, status \in {ConditionTrue, ConditionFalse}},
             MaxNew)

InitMerge ==
    /\ ControllerAtRest
    /\ fnIn \in [status : {[conds |-> conds, other |-> other] :
                                conds \in UniqueKindLists, other \in {0, 1}},
                 newConditions : NewConditionLists]
    /\ fnOut = NotApplied

\* the merge runs at a time later than every stored timestamp
ApplyMerge ==
    /\ ~fnOut.applied
    /\ fnOut' = [applied |-> TRUE,
                 r |-> MergeConditions(fnIn.status, fnIn.newConditions, 2)]
    /\ UNCHANGED <<store, cache, opCond, now, pc, cyc, att, rep, fnIn>>

NextMerge == ApplyMerge

SpecMerge == InitMerge /\ [][NextMerge]_vars

-----------------------------------------------------------------------------
(* Properties *)

WLPTypes == {KubeControllerManagerDegraded, KubeControllerManagerProgressing,
             KubeControllerManagerComplete}

HasType(conds, type) == \E i \in 1..Len(conds) : conds[i].type = type

CondOf(conds, type) == conds[CHOOSE i \in 1..Len(conds) : conds[i].type = type]

\* conds holds exactly the three kinds, with these statuses and this reason
Verdict(conds, degraded, progressing, completed, reason) ==
    /\ Len(conds) = 3
    /\ \A type \in WLPTypes : HasType(conds, type)
    /\ CondOf(conds, KubeControllerManagerDegraded).status = degraded
    /\ CondOf(conds, KubeControllerManagerProgressing).status = progressing
    /\ CondOf(conds, KubeControllerManagerComplete).status = completed
    /\ \A i \in 1..Len(conds) : conds[i].reason = reason

\* every new condition is in the status with its status, reason and message
ContainsConditions(status, newConditions) ==
    \A i \in 1..Len(newConditions) :
        \E j \in 1..Len(status.conds) :
            /\ status.conds[j].type = newConditions[i].type
            /\ status.conds[j].status = newConditions[i].status
            /\ status.conds[j].reason = newConditions[i].reason
            /\ status.conds[j].message = newConditions[i].message

\* C1: a cycle that reads a profile other than "", Default, Medium or Low
\* returns an error, issues no write of the three conditions and reports
\* LatencyProfileControllerDegraded=True
C1_UnknownProfileIsAnError ==
    (pc = "done" /\ cyc.listed = "ok" /\ cyc.profile \notin KnownProfiles)
        => /\ cyc.evalErr # Nil
           /\ ~cyc.commit
           /\ cyc.writes = 0
           /\ rep.status = ConditionTrue

\* C2: for a decodable config map the evaluator returns, without error, true
\* exactly when every expected pair finds its name in extendedArguments with
\* an empty value list or a first value equal to the expected one: the
\* conjunction over all pairs, whatever the order of iteration
C2_MatchIsConjunctionOfPairs ==
    (fnOut.applied /\ Decodable(fnIn.configMap))
        => /\ fnOut.r.err = Nil
           /\ fnOut.r.match =
                (\A i \in 1..Len(fnIn.argVals) :
                    LET entry == fnIn.configMap.ext[fnIn.argVals[i][1]]
                    IN  /\ entry.present
                        /\ \/ Len(entry.vals) = 0
                           \/ entry.vals[1] = fnIn.argVals[i][2])

\* two expected pairs, the first fails on an absent name, the second passes
\* on a present name with no value: the result is false
C2_Witness ==
    /\ fnOut.applied
    /\ Decodable(fnIn.configMap)
    /\ Len(fnIn.argVals) = 2
    /\ ~fnIn.configMap.ext[fnIn.argVals[1][1]].present
    /\ fnIn.configMap.ext[fnIn.argVals[2][1]] = ArgPresent(<<>>)
    /\ ~fnOut.r.match

ProfileIsSet(listed) == listed.err = Nil /\ listed.profile # ""

AllDecodable(opState, snaps) ==
    \A r \in RevisionSet(opState.nodeStatuses) : Decodable(snaps[r])

\* C3: with a set profile and every lookup and decode succeeding, the cycle
\* commits Degraded=False, Progressing=False, Completed=True with reason
\* ProfileUpdated when every distinct revision's snapshot matches, and
\* Degraded=False, Progressing=True, Completed=False with reason
\* ProfileUpdateTriggered when at least one does not
C3_VerdictConditions ==
    (/\ fnOut.applied
     /\ ProfileIsSet(fnIn.listed)
     /\ fnIn.opState.err = Nil
     /\ AllDecodable(fnIn.opState, fnIn.snaps))
        => LET desired == DesiredArgumentVals(fnIn.listed.profile)
               allMatch == \A r \in RevisionSet(fnIn.opState.nodeStatuses) :
                                SnapshotSatisfies(fnIn.snaps[r].ext, desired)
           IN  /\ fnOut.r.commit
               /\ fnOut.r.err = Nil
               /\ allMatch =>
                    Verdict(fnOut.r.conds, ConditionFalse, ConditionFalse,
                            ConditionTrue, "ProfileUpdated")
               /\ ~allMatch =>
                    Verdict(fnOut.r.conds, ConditionFalse, ConditionTrue,
                            ConditionFalse, "ProfileUpdateTriggered")

\* profile Medium, two distinct revisions, one snapshot stale at 40s and the
\* other at 2m0s: the in-progress conditions are committed
C3_Witness ==
    /\ fnOut.applied
    /\ fnIn.listed.err = Nil
    /\ fnIn.listed.profile = MediumUpdateAverageReaction
    /\ fnIn.opState.nodeStatuses = <<1, 2>>
    /\ fnIn.snaps[1] = ConfigMap(TRUE, TRUE,
            [NoExt EXCEPT ![nodeMonitorGracePeriodArgument] = ArgPresent(<<"2m0s">>)])
    /\ fnIn.snaps[2] = ConfigMap(TRUE, TRUE,
            [NoExt EXCEPT ![nodeMonitorGracePeriodArgument] = ArgPresent(<<"40s">>)])
    /\ Verdict(fnOut.r.conds, ConditionFalse, ConditionTrue, ConditionFalse,
               "ProfileUpdateTriggered")

\* the attempt read a status and merged the new conditions into a copy
AttemptMerged == att.n > 0 /\ att.new.conds # <<>>

C5_NoWriteWhenUnchanged ==
    (AttemptMerged /\ att.old = att.new)
        => /\ ~att.issued
           /\ pc # "commit"
           /\ ~cyc.updated
           /\ cyc.err = Nil

\* C6: when updateConfigNodeStatus returns nil, either the store accepted a
\* write of this commit that holds the new conditions, or the store held
\* them already; nil is never returned with the store lacking them
C6_NilMeansStored ==
    [][(pc = "commit" /\ pc' = "report" /\ cyc'.err = Nil)
        => \/ /\ att'.issued
              /\ att'.outcome = "ok"
              /\ store'.status = att'.new
              /\ ContainsConditions(store'.status, cyc.conds)
           \/ /\ ~att'.issued
              /\ ContainsConditions(store.status, cyc.conds)
              /\ store' = store]_vars

\* a commit returned nil on a later attempt, after a conflict, and the store
\* holds the new conditions
C6_Witness ==
    /\ pc = "report"
    /\ cyc.commit
    /\ cyc.err = Nil
    /\ cyc.attempts >= 2
    /\ cyc.writes >= 2
    /\ ContainsConditions(store.status, cyc.conds)

\* C7: the store accepts a write of the commit only when its version token
\* still is the token of the object the attempt read, so what another
\* writer has changed in the status since is never overwritten
C7_NoLostUpdate ==
    [][(pc = "commit" /\ att' # att /\ att'.outcome = "ok")
        => /\ att'.reqRv = store.rv
           /\ store'.status.other = store.status.other
           /\ store'.profile = store.profile]_vars

\* a write of the commit was refused as a conflict, and the change of the
\* other writer that the attempt had not read is still in the store
C7_Witness ==
    /\ att.issued
    /\ att.outcome = "conflict"
    /\ att.old.other # store.status.other

\* C8: every cycle ends with the report of LatencyProfileControllerDegraded,
\* True with the error's text as message when the cycle's evaluation
\* returned an error and False otherwise, and sync returns a non-nil error
\* whenever the evaluation returned one
C8_OperationalReport ==
    (pc = "done")
        => /\ rep.done
           /\ (cyc.err # Nil) => /\ rep.status = ConditionTrue
                                 /\ rep.message = cyc.err
                                 /\ rep.ret # Nil
           /\ (cyc.err = Nil) => rep.status = ConditionFalse
           /\ rep.stored => opCond = rep.status

\* a cycle whose commit failed has reported True with the error as message
C8_Witness ==
    /\ pc = "done"
    /\ cyc.commit
    /\ cyc.err = "conflict"
    /\ rep.stored
    /\ opCond = ConditionTrue
    /\ rep.message = "conflict"

\* C9: a cycle that fails before the commit issues no write to the status
\* of the target: its steps leave the object in the API server and the
\* cached object as they are, and it reports the operational condition True
C9_FailedCycleWritesNothing ==
    [][(pc' # pc /\ (IF pc = "idle" THEN cyc'.evalErr ELSE cyc.evalErr) # Nil)
        => /\ store' = store
           /\ cache' = cache
           /\ pc' # "commit"
           /\ pc = "report" => /\ rep'.status = ConditionTrue
                               /\ cyc.writes = 0
                               /\ att.n = 0]_vars

\* a cycle failed on a snapshot, the conditions published before are still
\* in the store and the operational condition is True
C9_Witness ==
    /\ pc = "done"
    /\ cyc.evalErr = "configmap get error"
    /\ cyc.writes = 0
    /\ store.status.conds # <<>>
    /\ opCond = ConditionTrue

AnyUndecodable(opState, snaps) ==
    \E r \in RevisionSet(opState.nodeStatuses) : ~Decodable(snaps[r])

\* C10: with a set profile, when the lookup or decode of any distinct
\* revision of the fleet status would fail, the cycle returns an error and
\* publishes no verdict, whatever the order of the revisions and whether or
\* not another revision mismatches
C10_AnyFailureAborts ==
    (/\ fnOut.applied
     /\ ProfileIsSet(fnIn.listed)
     /\ fnIn.opState.err = Nil
     /\ AnyUndecodable(fnIn.opState, fnIn.snaps))
        => /\ fnOut.r.err # Nil
           /\ ~fnOut.r.commit

\* the first distinct revision, in the order of the fleet status, whose
\* snapshot fails to be read or decoded or does not match; 0 for none
FirstStop(revisions, snaps, desired) ==
    IF \E i \in 1..Len(revisions) :
            \/ ~Decodable(snaps[revisions[i]])
            \/ ~SnapshotSatisfies(snaps[revisions[i]].ext, desired)
    THEN CHOOSE i \in 1..Len(revisions) :
            /\ \/ ~Decodable(snaps[revisions[i]])
               \/ ~SnapshotSatisfies(snaps[revisions[i]].ext, desired)
            /\ \A j \in 1..(i-1) :
                /\ Decodable(snaps[revisions[j]])
                /\ SnapshotSatisfies(snaps[revisions[j]].ext, desired)
    ELSE 0

\* C10 amended: the cycle returns an error and publishes no verdict when the
\* lookup or decode of a revision fails and every distinct revision before
\* it in the fleet status matches; when a revision before it mismatches, the
\* cycle never requests the failing snapshot and commits the in-progress
\* conditions
C10_FailureAbortsUnlessMismatchFirst ==
    (/\ fnOut.applied
     /\ ProfileIsSet(fnIn.listed)
     /\ fnIn.opState.err = Nil
     /\ AnyUndecodable(fnIn.opState, fnIn.snaps))
        => LET revisions == UniqueRevisions(fnIn.opState.nodeStatuses)
               desired == DesiredArgumentVals(fnIn.listed.profile)
               k == FirstStop(revisions, fnIn.snaps, desired)
           IN  /\ k > 0
               /\ fnOut.r.lookups = SubSeq(revisions, 1, k)
               /\ IF Decodable(fnIn.snaps[revisions[k]])
                  THEN /\ fnOut.r.err = Nil
                       /\ fnOut.r.commit
                       /\ Verdict(fnOut.r.conds, ConditionFalse, ConditionTrue,
                                  ConditionFalse, "ProfileUpdateTriggered")
                  ELSE /\ fnOut.r.err # Nil
                       /\ ~fnOut.r.commit
                       /\ fnOut.r.conds = <<>>

\* the first revision matches and the lookup of the second fails: the cycle
\* returns the error after two lookups
C10_Witness ==
    /\ fnOut.applied
    /\ ProfileIsSet(fnIn.listed)
    /\ fnIn.opState.nodeStatuses = <<1, 2>>
    /\ Decodable(fnIn.snaps[1])
    /\ SnapshotSatisfies(fnIn.snaps[1].ext,
                         DesiredArgumentVals(fnIn.listed.profile))
    /\ fnIn.snaps[2] = LookupError
    /\ fnOut.r.lookups = <<1, 2>>
    /\ fnOut.r.err = "configmap get error"
    /\ ~fnOut.r.commit

DefinedProfiles == {DefaultUpdateDefaultReaction, MediumUpdateAverageReaction,
                    LowUpdateSlowReaction}

\* the observer read a defined profile from the Node object
ObservedDefined ==
    /\ fnOut.applied
    /\ fnIn.listed.err = Nil
    /\ fnIn.listed.profile \in DefinedProfiles

\* the duration the profile stands for: 40s, 2m0s, 5m0s
DurationOf(profile) ==
    IF profile = DefaultUpdateDefaultReaction THEN "40s"
    ELSE IF profile = MediumUpdateAverageReaction THEN "2m0s"
    ELSE "5m0s"

\* C11: for each of the three defined profiles and every existing config the
\* observer returns, with no error, exactly the config
\* {extendedArguments: {node-monitor-grace-period: [d]}} with d = 40s for
\* Default, 2m0s for Medium, 5m0s for Low
C11_ObservedConfigIsSingleDuration ==
    ObservedDefined
        => /\ fnOut.r.errs = <<>>
           /\ fnOut.r.ret =
                Config(PathStrings(<<DurationOf(fnIn.listed.profile)>>), FALSE)

\* C11 amended: for a defined profile the observer returns a config that
\* holds nothing but the node-monitor-grace-period path, with a list whose
\* first element is the profile's duration: the single-element list [d],
\* unless the existing list already starts with d, and then the existing
\* list as it is; it returns no error unless the existing value at the path
\* is not a list of strings, and then one extraction error with [d]
C11_ObservedConfigStartsWithDuration ==
    ObservedDefined
        => LET d == DurationOf(fnIn.listed.profile)
               existing == fnIn.existingConfig
               keeps == /\ ~existing.nil
                        /\ existing.path.kind = "strings"
                        /\ Len(existing.path.vals) > 0
                        /\ existing.path.vals[1] = d
           IN  /\ ~fnOut.r.ret.nil
               /\ ~fnOut.r.ret.rest
               /\ fnOut.r.ret.path.kind = "strings"
               /\ fnOut.r.ret.path.vals[1] = d
               /\ fnOut.r.ret.path.vals =
                    (IF keeps THEN existing.path.vals ELSE <<d>>)
               /\ IF ~existing.nil /\ existing.path.kind = "malformed"
                  THEN /\ Len(fnOut.r.errs) = 1
                       /\ fnOut.r.errs[1].msg # "unknown worker latency profile found"
                  ELSE fnOut.r.errs = <<>>

\* profile Low over an existing config that holds 40s and another key: the
\* observer returns exactly the path with [5m0s]
C11_Witness ==
    /\ fnOut.applied
    /\ fnIn.listed.err = Nil
    /\ fnIn.listed.profile = LowUpdateSlowReaction
    /\ fnIn.existingConfig = Config(PathStrings(<<"40s">>), TRUE)
    /\ fnOut.r.ret = Config(PathStrings(<<"5m0s">>), FALSE)
    /\ fnOut.r.errs = <<>>

\* the observer kept the existing config: no defined profile was read
ObservedNothing ==
    /\ fnOut.applied
    /\ \/ fnIn.listed.err = "not found"
       \/ fnIn.listed.err = Nil /\ fnIn.listed.profile \notin DefinedProfiles

\* C12: when the profile is unset or unrecognized, or the Node object is not
\* found, the observer returns the existing config restricted to the
\* node-monitor-grace-period path with the value unchanged; it returns an
\* error, the unknown-profile one, in the unrecognized case only
C12_ObserverKeepsLastKnownGood ==
    ObservedNothing
        => LET existing == fnIn.existingConfig
               unknown == fnIn.listed.err = Nil /\ fnIn.listed.profile # ""
           IN  /\ fnOut.r.ret.nil = existing.nil
               /\ fnOut.r.ret.path = existing.path
               /\ ~fnOut.r.ret.rest
               /\ unknown =>
                    /\ Len(fnOut.r.errs) = 1
                    /\ fnOut.r.errs[1].msg = "unknown worker latency profile found"
                    /\ fnOut.r.errs[1].arg = fnIn.listed.profile
               /\ ~unknown => fnOut.r.errs = <<>>

\* an unrecognized profile over an existing config that holds 40s and
\* another key: the path with 40s comes back, with the error
C12_Witness ==
    /\ fnOut.applied
    /\ fnIn.listed.err = Nil
    /\ fnIn.listed.profile = "BogusValue"
    /\ fnIn.existingConfig = Config(PathStrings(<<"40s">>), TRUE)
    /\ fnOut.r.ret = Config(PathStrings(<<"40s">>), FALSE)
    /\ Len(fnOut.r.errs) = 1

NotFound == [err |-> "not found", profile |-> ""]

\* C13: when the read of the Node "cluster" at the start of a cycle reports
\* not-found, the cycle reads no fleet status, looks up no snapshot, issues
\* no status write, returns no error and reports the operational condition
\* False; any other failure of that read is returned as an error
C13_NotFoundIsNoOp ==
    /\ (pc = "done" /\ cyc.listed = "not found")
        => /\ \A e \in Evaluations[NotFound] :
                ~e.readFleet /\ e.lookups = <<>> /\ ~e.commit /\ e.err = Nil
           /\ cyc.evalErr = Nil
           /\ ~cyc.commit
           /\ cyc.attempts = 0
           /\ cyc.writes = 0
           /\ cyc.err = Nil
           /\ rep.status = ConditionFalse
           /\ rep.stored => (opCond = ConditionFalse /\ rep.ret = Nil)
    /\ (pc = "done" /\ cyc.listed = "lister error")
        => /\ cyc.err = "lister error"
           /\ rep.ret # Nil

\* the cycle found no Node object: nothing is in the store's conditions and
\* the operational condition is False
C13_Witness ==
    /\ pc = "done"
    /\ cyc.listed = "not found"
    /\ cache = NoObj
    /\ store.status.conds = <<>>
    /\ rep.stored
    /\ opCond = ConditionFalse

\* a step of the commit: one run of the function RetryOnConflict calls
AttemptStep == pc = "commit" /\ att' # att

\* the run ended at the read of the Node object
ReadFailed(a) == ~a.issued /\ a.new.conds = <<>>

\* C14: the commit starts a further attempt only after a write that failed
\* with a conflict; a failed read or a write error that is not a conflict
\* ends the commit at once, returned with changed=false, and an accepted
\* write ends it with changed=true
C14_RetryOnlyOnConflict ==
    [][AttemptStep
        => /\ pc' = "commit" => (att'.issued /\ att'.outcome = "conflict")
           /\ (ReadFailed(att') \/ att'.outcome = "error")
                => /\ pc' = "report"
                   /\ cyc'.finished
                   /\ cyc'.attempts = cyc.attempts + 1
                   /\ ~cyc'.updated
                   /\ cyc'.err # Nil
           /\ att'.outcome = "ok"
                => /\ pc' = "report"
                   /\ cyc'.finished
                   /\ cyc'.updated
                   /\ cyc'.err = Nil]_vars

\* a commit went through a conflict to a second attempt, whose write failed
\* for another reason and ended the commit
C14_Witness ==
    /\ pc = "report"
    /\ cyc.finished
    /\ cyc.attempts = 2
    /\ att.outcome = "error"
    /\ cyc.err = "error"
    /\ ~cyc.updated

C16_FreshTokenAfterConflict ==
    [][(AttemptStep /\ att.outcome = "conflict" /\ att.n = cyc.attempts
            /\ att'.issued)
        => att'.reqRv # att.reqRv]_vars

\* C17: an attempt of the commit leaves the cached object as it is, whether
\* its write was accepted or failed
C17_AttemptLeavesCacheAlone ==
    [][AttemptStep => cache' = cache]_vars

\* the cycle read the Node object and found the profile unset
ProfileUnset ==
    /\ fnOut.applied
    /\ fnIn.listed.err = Nil
    /\ fnIn.listed.profile = ""

\* C18: with the profile unset the cycle reads no fleet status and looks up
\* no snapshot, and commits Degraded=False, Progressing=False,
\* Completed=False with reason ProfileEmpty on all three, whatever the fleet
\* status and the snapshots are
C18_UnsetShortCircuits ==
    ProfileUnset
        => /\ ~fnOut.r.readFleet
           /\ fnOut.r.lookups = <<>>
           /\ fnOut.r.err = Nil
           /\ fnOut.r.commit
           /\ Verdict(fnOut.r.conds, ConditionFalse, ConditionFalse,
                      ConditionFalse, "ProfileEmpty")

\* the profile is unset while the fleet runs two revisions and the lookup
\* of the first would fail: ProfileEmpty is committed
C18_Witness ==
    /\ ProfileUnset
    /\ fnIn.opState.nodeStatuses = <<1, 2>>
    /\ fnIn.snaps[1] = LookupError
    /\ fnOut.r.commit
    /\ fnOut.r.conds = ProfileEmptyConditions

\* C19: a cycle looks up each distinct revision of the fleet status at most
\* once, so no more snapshots than there are distinct revisions, and the
\* verdict it commits is decided by the set of distinct revisions: completed
\* when the snapshot of every distinct revision matches, in progress when
\* one does not, however many replicas run each
C19_OneLookupPerDistinctRevision ==
    (/\ fnOut.applied
     /\ ProfileIsSet(fnIn.listed)
     /\ fnIn.opState.err = Nil)
        => LET revs == RevisionSet(fnIn.opState.nodeStatuses)
               lookups == fnOut.r.lookups
               desired == DesiredArgumentVals(fnIn.listed.profile)
               allMatch == \A rev \in revs :
                                /\ Decodable(fnIn.snaps[rev])
                                /\ SnapshotSatisfies(fnIn.snaps[rev].ext, desired)
           IN  /\ Len(lookups) <= Cardinality(revs)
               /\ \A i \in 1..Len(lookups) : lookups[i] \in revs
               /\ \A i, j \in 1..Len(lookups) : lookups[i] = lookups[j] => i = j
               /\ fnOut.r.commit =>
                    fnOut.r.conds = IF allMatch THEN ProfileUpdatedConditions
                                    ELSE ProfileUpdateTriggeredConditions

\* two replicas run the same revision: one lookup, and the completed
\* conditions are committed
C19_Witness ==
    /\ fnOut.applied
    /\ ProfileIsSet(fnIn.listed)
    /\ fnIn.opState.nodeStatuses = <<1, 1>>
    /\ fnOut.r.lookups = <<1>>
    /\ fnOut.r.commit
    /\ fnOut.r.conds = ProfileUpdatedConditions

UniqueKinds(conds) ==
    \A i, j \in 1..Len(conds) : conds[i].type = conds[j].type => i = j

KindsOf(conds) == {conds[i].type : i \in 1..Len(conds)}

\* C20: a merge into a condition list with at most one condition of a kind
\* gives a list with at most one condition of a kind: the conditions that
\* were there keep their places, and one condition is appended for each new
\* kind that was not there
C20_MergeKeepsKindsUnique ==
    fnOut.applied
        => LET old == fnIn.status.conds
               merged == fnOut.r.conds
           IN  /\ UniqueKinds(merged)
               /\ Len(merged) = Len(old) +
                    Cardinality(KindsOf(fnIn.newConditions) \ KindsOf(old))
               /\ \A i \in 1..Len(old) : merged[i].type = old[i].type
               /\ KindsOf(merged) = KindsOf(old) \cup KindsOf(fnIn.newConditions)

\* one kind is stored; the call brings a new kind twice and then the stored
\* kind: one condition is appended
C20_Witness ==
    /\ fnOut.applied
    /\ Len(fnIn.status.conds) = 1
    /\ Len(fnIn.newConditions) = 3
    /\ fnIn.newConditions[1].type = fnIn.newConditions[2].type
    /\ fnIn.newConditions[1].type # fnIn.status.conds[1].type
    /\ fnIn.newConditions[3].type = fnIn.status.conds[1].type
    /\ Len(fnOut.r.conds) = 2

\* C21: a merge keeps every kind that was there, leaves every condition
\* whose kind is not among the new conditions as it was, in status, reason,
\* message and timestamp, and leaves the fields of the status other than
\* the condition list as they were
C21_MergeFrame ==
    fnOut.applied
        => LET old == fnIn.status.conds
               merged == fnOut.r.conds
               given == KindsOf(fnIn.newConditions)
           IN  /\ KindsOf(old) \subseteq KindsOf(merged)
               /\ Len(merged) >= Len(old)
               /\ \A i \in 1..Len(old) :
                    old[i].type \notin given => merged[i] = old[i]
               /\ fnOut.r.other = fnIn.status.other

\* two kinds are stored and the call brings the third: the two stored
\* conditions and the other field are as before
C21_Witness ==
    /\ fnOut.applied
    /\ Len(fnIn.status.conds) = 2
    /\ fnIn.status.other = 1
    /\ Len(fnIn.newConditions) = 1
    /\ fnIn.newConditions[1].type \notin KindsOf(fnIn.status.conds)
    /\ Len(fnOut.r.conds) = 3
    /\ SubSeq(fnOut.r.conds, 1, 2) = fnIn.status.conds
    /\ fnOut.r.other = 1

\* the three conditions are there with status True or False, Degraded is
\* False, and Progressing and Completed are not both True
PublishedOK(conds) ==
    /\ \A type \in WLPTypes : HasType(conds, type)
    /\ \A i \in 1..Len(conds) :
            conds[i].status \in {ConditionTrue, ConditionFalse}
    /\ CondOf(conds, KubeControllerManagerDegraded).status = ConditionFalse
    /\ ~ /\ CondOf(conds, KubeControllerManagerProgressing).status = ConditionTrue
         /\ CondOf(conds, KubeControllerManagerComplete).status = ConditionTrue

\* C22: every status the controller sends, and so every status the store
\* holds once the controller has written, carries Degraded, Progressing and
\* Completed with status True or False, never Unknown, with Degraded False
\* and Progressing and Completed not both True
C22_PublishedStatuses ==
    /\ att.issued => PublishedOK(att.new.conds)
    /\ store.status.conds # <<>> => PublishedOK(store.status.conds)

\* the store holds Completed=True after it held Progressing=True
C22_Witness ==
    /\ store.status.conds # <<>>
    /\ CondOf(store.status.conds, KubeControllerManagerComplete).status
         = ConditionTrue
    /\ CondOf(store.status.conds, KubeControllerManagerComplete).ltt > 1
    /\ CondOf(store.status.conds, KubeControllerManagerProgressing).status
         = ConditionFalse

\* ExtendedArguments of a snapshot that carries an observed config
ExtendedArgumentsOf(config) ==
    [n \in ArgNames |->
        IF /\ n = nodeMonitorGracePeriodPath[2]
           /\ ~config.nil
           /\ config.path.kind = "strings"
        THEN ArgPresent(config.path.vals)
        ELSE ArgAbsent]

\* C23: for each defined profile the name and the value the observer writes
\* are the name and the value the controller expects, and
\* configMatchesControllerManagerArguments judges a snapshot that carries
\* the observer's output a match
C23_ResolversAgree ==
    ObservedDefined
        => LET desired == DesiredArgumentVals(fnIn.listed.profile)
               observed == fnOut.r.ret
               snapshot == ConfigMap(TRUE, TRUE, ExtendedArgumentsOf(observed))
               m == configMatchesControllerManagerArguments(snapshot, desired)
           IN  /\ Len(desired) = 1
               /\ desired[1][1] = nodeMonitorGracePeriodPath[2]
               /\ nodeMonitorGracePeriodPath[1] = "extendedArguments"
               /\ observed.path.vals # <<>>
               /\ desired[1][2] = observed.path.vals[1]
               /\ m.err = Nil
               /\ m.match

\* profile Medium over no existing config: the observer writes 2m0s, the
\* value the controller expects
C23_Witness ==
    /\ fnOut.applied
    /\ fnIn.listed.err = Nil
    /\ fnIn.listed.profile = MediumUpdateAverageReaction
    /\ fnIn.existingConfig = NilConfig
    /\ fnOut.r.ret.path.vals = <<"2m0s">>
    /\ DesiredArgumentVals(MediumUpdateAverageReaction)[1][2] = "2m0s"

\* C24: with a set profile and a fleet status that lists no replica, the
\* cycle looks up no snapshot and commits Degraded=False, Progressing=False,
\* Completed=True with reason ProfileUpdated
C24_EmptyFleetIsCompleted ==
    (/\ fnOut.applied
     /\ ProfileIsSet(fnIn.listed)
     /\ fnIn.opState.err = Nil
     /\ fnIn.opState.nodeStatuses = <<>>)
        => /\ fnOut.r.readFleet
           /\ fnOut.r.lookups = <<>>
           /\ fnOut.r.err = Nil
           /\ fnOut.r.commit
           /\ Verdict(fnOut.r.conds, ConditionFalse, ConditionFalse,
                      ConditionTrue, "ProfileUpdated")

\* profile Low and no replica: the completed conditions are committed
C24_Witness ==
    /\ fnOut.applied
    /\ fnIn.listed.err = Nil
    /\ fnIn.listed.profile = LowUpdateSlowReaction
    /\ fnIn.opState = [err |-> Nil, nodeStatuses |-> <<>>]
    /\ fnOut.r.commit
    /\ fnOut.r.conds = ProfileUpdatedConditions

-----------------------------------------------------------------------------
(* The controller in a settled cluster: the profile stays at a defined     *)
(* value, every revision's snapshot matches it, every read and write       *)
(* reaches its server, no other actor writes, the informer delivers and    *)
(* triggers keep arriving                                                  *)

\* conditions as a status holds them, stamped at time t
StampedAt(conds, t) == [i \in 1..Len(conds) |-> [conds[i] EXCEPT !.ltt = t]]

\* what earlier cycles may have left in the status
SettledStatuses ==
    {[conds |-> conds, other |-> other] :
        conds \in {<<>>, StampedAt(ProfileEmptyConditions, 1),
                   StampedAt(ProfileUpdateTriggeredConditions, 1),
                   StampedAt(ProfileUpdatedConditions, 1)},
        other \in {0, 1}}

InitSettled ==
    /\ store \in [rv : {1}, profile : DefinedProfiles, status : SettledStatuses]
    /\ cache \in {NoObj, store}
    /\ opCond = ConditionUnknown
    /\ now = 1
    /\ pc = "idle"
    /\ cyc = NoCycle
    /\ att = NoAttempt
    /\ rep = NoReport
    /\ fnIn = <<>>
    /\ fnOut = <<>>

\* a cycle whose lister answers and whose revisions all match
SettledStartSync ==
    /\ StartSync
    /\ cyc'.listed # "lister error"
    /\ cyc'.err = Nil
    /\ cyc'.listed = "ok" => (cyc'.commit /\ cyc'.conds = ProfileUpdatedConditions)

\* an attempt whose read and write reach the lister and the API server
SettledAttempt ==
    /\ Attempt
    /\ ~ReadFailed(att')
    /\ att'.outcome # "error"

\* a report the operator status accepts
SettledReport ==
    /\ Report
    /\ rep'.stored

NextSettled ==
    SettledStartSync \/ SettledAttempt \/ SettledReport \/ Return \/ Feed

\* triggers arrive serialized and keep arriving, a cycle that has started
\* runs to its end, and the informer delivers what the store holds
SpecSettled ==
    /\ InitSettled
    /\ [][NextSettled]_vars
    /\ WF_vars(SettledStartSync)
    /\ WF_vars(SettledAttempt)
    /\ WF_vars(SettledReport)
    /\ WF_vars(Return)
    /\ WF_vars(Feed)

\* the store holds Degraded=False, Progressing=False, Completed=True
StoredConverged ==
    /\ store.status.conds # <<>>
    /\ Verdict(store.status.conds, ConditionFalse, ConditionFalse,
               ConditionTrue, "ProfileUpdated")

\* C25: in a settled cluster the stored conditions are eventually
\* Completed=True, Progressing=False, Degraded=False, and once they are,
\* they stay so and the controller issues no further write
C25_ConvergedStaysWithoutWrites ==
    [][StoredConverged
        => /\ StoredConverged'
           /\ ~(AttemptStep /\ att'.issued)]_vars

\* in a settled cluster the stored conditions become and stay
\* Completed=True, Progressing=False, Degraded=False
EventuallyConverged == <>[]StoredConverged

====
